---- MODULE Spec2Model ----
(***************************************************************************)
(* A model of cronosquery.py: the CronosCLI session object (chain          *)
(* registry, endpoint registry, current_chain / base_url), its request     *)
(* path substitution, its menu and free-text prompts, its response         *)
(* formatter and the interactive run() loop.                               *)
(*                                                                         *)
(* Python strings are sequences of atoms.  An atom is a TLA+ string that   *)
(* stands for a chunk of characters no modelled operation splits: single   *)
(* characters where the code parses or slices (numbers, menu input, the    *)
(* proposer address), whole words elsewhere (path literals, param names).  *)
(* A "{name}" placeholder is the three atoms "{", "name", "}".             *)
(***************************************************************************)
EXTENDS Integers, Sequences, FiniteSets, TLC

VARIABLES
    pc,                \* position of run(): which prompt or step comes next
    current_chain,     \* self.current_chain
    base_url,          \* self.base_url
    selected_module,   \* run(): selected_module (key) or None
    selected_endpoint, \* run(): selected_endpoint (key) or None
    params,            \* run(): params dict, as a sequence of <<name, value>> in insertion order
    result,            \* run(): result of make_request (a JSON value or None)
    requested,         \* the URL of the last session.get, or None
    out,               \* what the last step printed (sequence of messages)
    last_act,          \* the last step taken
    last_input,        \* the last event consumed: a line, an interrupt, EOF, a network outcome
    exit_code,         \* process exit status once terminated, else None
    menu_options,      \* display_menu alone: the option keys, in insertion order
    menu_inputs,       \* display_menu alone: the lines read so far
    menu_msgs,         \* display_menu alone: the error message of each re-prompt
    menu_state,        \* display_menu alone: prompting / returned / exited / raised
    menu_ret,          \* display_menu alone: the returned key, or None
    fmt_in,            \* format_response alone: the argument
    fmt_out,           \* format_response alone: [done |-> FALSE] before the call, then its outcome
    api_call           \* direct method call on the object: [op, arg, ret], or None

vars == <<pc, current_chain, base_url, selected_module, selected_endpoint, params,
          result, requested, out, last_act, last_input, exit_code,
          menu_options, menu_inputs, menu_msgs, menu_state, menu_ret,
          fmt_in, fmt_out, api_call>>

sessionVars == <<pc, selected_module, selected_endpoint, params, result, requested,
                 out, last_act, last_input, exit_code>>
chainVars == <<current_chain, base_url>>
menuVars == <<menu_options, menu_inputs, menu_msgs, menu_state, menu_ret>>
fmtVars == <<fmt_in, fmt_out>>
\* what run() never touches
asideVars == <<menuVars, fmtVars, api_call>>

None == "None"
NoInput == [e |-> "none"]

-----------------------------------------------------------------------------
(* Python values: a call either returns a value or raises.                 *)

Ret(v) == [raised |-> FALSE, v |-> v]
Raise(e) == [raised |-> TRUE, exc |-> e]

Min(a, b) == IF a < b THEN a ELSE b

Range(s) == {s[i] : i \in 1..Len(s)}

RECURSIVE Concat(_)
\* "".join / += over a sequence of strings
Concat(ss) == IF ss = <<>> THEN <<>> ELSE Head(ss) \o Concat(Tail(ss))

-----------------------------------------------------------------------------
(* str methods                                                             *)

Whitespace == {" "}

RECURSIVE LStrip(_)
LStrip(s) == IF s # <<>> /\ Head(s) \in Whitespace THEN LStrip(Tail(s)) ELSE s

RECURSIVE RStrip(_)
RStrip(s) ==
    IF s # <<>> /\ s[Len(s)] \in Whitespace THEN RStrip(SubSeq(s, 1, Len(s) - 1)) ELSE s

\* str.strip()
Strip(s) == RStrip(LStrip(s))

\* str.lower(), on the atoms the post-query prompt distinguishes
LowerAtom(c) ==
    CASE c = "E" -> "e"
      [] c = "S" -> "s"
      [] c = "Q" -> "q"
      [] c = "Y" -> "y"
      [] c = "EXIT" -> "exit"
      [] c = "Switch" -> "switch"
      [] OTHER -> c

Lower(s) == [i \in 1..Len(s) |-> LowerAtom(s[i])]

StartsWith(s, old) == Len(old) <= Len(s) /\ SubSeq(s, 1, Len(old)) = old

RECURSIVE Replace(_, _, _)
\* str.replace(old, new): every non-overlapping occurrence, left to right
Replace(s, old, new) ==
    IF s = <<>> THEN <<>>
    ELSE IF old # <<>> /\ StartsWith(s, old)
         THEN new \o Replace(SubSeq(s, Len(old) + 1, Len(s)), old, new)
         ELSE <<Head(s)>> \o Replace(Tail(s), old, new)

-----------------------------------------------------------------------------
(* int(str), str(int) and format(int, ",")                                 *)

Digits == <<"0", "1", "2", "3", "4", "5", "6", "7", "8", "9">>

IsDigit(c) == \E d \in 1..10 : Digits[d] = c

DigitVal(c) == (CHOOSE d \in 1..10 : Digits[d] = c) - 1

RECURSIVE DigitsValue(_, _)
DigitsValue(s, acc) ==
    IF s = <<>> THEN acc ELSE DigitsValue(Tail(s), 10 * acc + DigitVal(Head(s)))

\* int(s) for a str: surrounding whitespace, an optional sign, then one or more digits
ParseInt(s) ==
    LET t == Strip(s)
        signed == t # <<>> /\ Head(t) \in {"+", "-"}
        body == IF signed THEN Tail(t) ELSE t
    IN IF body # <<>> /\ \A i \in 1..Len(body) : IsDigit(body[i])
       THEN Ret(IF signed /\ Head(t) = "-" THEN 0 - DigitsValue(body, 0)
                ELSE DigitsValue(body, 0))
       ELSE Raise("ValueError")

RECURSIVE NatToStr(_)
NatToStr(n) ==
    IF n < 10 THEN <<Digits[n + 1]>> ELSE NatToStr(n \div 10) \o <<Digits[(n % 10) + 1]>>

\* str(n) for an int
IntToStr(n) == IF n < 0 THEN <<"-">> \o NatToStr(0 - n) ELSE NatToStr(n)

RECURSIVE GroupThousands(_)
GroupThousands(ds) ==
    IF Len(ds) <= 3 THEN ds
    ELSE GroupThousands(SubSeq(ds, 1, Len(ds) - 3)) \o <<",">>
         \o SubSeq(ds, Len(ds) - 2, Len(ds))

\* f"{n:,}"
FormatThousands(n) ==
    IF n < 0 THEN <<"-">> \o GroupThousands(NatToStr(0 - n)) ELSE GroupThousands(NatToStr(n))

\* f"{(n / total) * 100:.1f}" in tenths of a percent (nearest tenth)
PctTenths(n, total) ==
    1000 * (n \div total) + (1000 * (n % total) + (total \div 2)) \div total

FormatPct(n, total) ==
    LET t == PctTenths(n, total)
    IN IntToStr(t \div 10) \o <<".">> \o <<Digits[(t % 10) + 1]>> \o <<"%">>

-----------------------------------------------------------------------------
(* JSON values, as response.json() decodes them                            *)

JNull == [t |-> "null"]
JNum(n) == [t |-> "num", n |-> n]
JStr(s) == [t |-> "str", s |-> s]
JList(l) == [t |-> "list", l |-> l]
JObj(f) == [t |-> "obj", o |-> f]

NoKeys == [k \in {} |-> JNull]
EmptyObj == JObj(NoKeys)
EmptyList == JList(<<>>)

\* bool(x): Python truthiness
Truthy(j) ==
    CASE j.t = "null" -> FALSE
      [] j.t = "num" -> j.n # 0
      [] j.t = "str" -> j.s # <<>>
      [] j.t = "list" -> j.l # <<>>
      [] j.t = "obj" -> DOMAIN j.o # {}

\* key in x
Contains(j, key) ==
    CASE j.t = "obj" -> Ret(key \in DOMAIN j.o)
      [] j.t = "list" -> Ret(\E i \in 1..Len(j.l) : j.l[i] = JStr(<<key>>))
      [] j.t = "str" -> Ret(\E i \in 1..Len(j.s) : j.s[i] = key)
      [] OTHER -> Raise("TypeError")

\* x[key] for a str key
Subscript(j, key) ==
    CASE j.t = "obj" -> IF key \in DOMAIN j.o THEN Ret(j.o[key]) ELSE Raise("KeyError")
      [] OTHER -> Raise("TypeError")

\* x.get(key, default): only a dict has it
DictGet(j, key, default) ==
    IF j.t = "obj"
    THEN Ret(IF key \in DOMAIN j.o THEN j.o[key] ELSE default)
    ELSE Raise("AttributeError")

\* int(x)
PyInt(j) ==
    CASE j.t = "str" -> ParseInt(j.s)
      [] j.t = "num" -> Ret(j.n)
      [] OTHER -> Raise("TypeError")

-----------------------------------------------------------------------------
(* The chain registry and the endpoint registry of __init__                *)

Chains ==
    <<[key |-> "evm", name |-> "Cronos EVM Chain",
       base_url |-> <<"https://", "rest.cronos.org", "/">>],
      [key |-> "pos", name |-> "Cronos POS Chain",
       base_url |-> <<"https://", "rest.mainnet.crypto.org", "/">>]>>

ChainKeys == {Chains[i].key : i \in 1..Len(Chains)}

Chain(k) == Chains[CHOOSE i \in 1..Len(Chains) : Chains[i].key = k]

Modules ==
    <<
      [key |-> "auth", name |-> "Authentication & Accounts", endpoints |-> <<
          [key |-> "account", name |-> "Get account details",
           path |-> <<"cosmos/auth/v1beta1/accounts/", "{", "address", "}">>,
           params |-> <<"address">>],
          [key |-> "accounts", name |-> "List all accounts",
           path |-> <<"cosmos/auth/v1beta1/accounts">>,
           params |-> <<>>],
          [key |-> "params", name |-> "Get auth parameters",
           path |-> <<"cosmos/auth/v1beta1/params">>,
           params |-> <<>>]>>],
      [key |-> "bank", name |-> "Bank & Balances", endpoints |-> <<
          [key |-> "balances", name |-> "Get account balances",
           path |-> <<"cosmos/bank/v1beta1/balances/", "{", "address", "}">>,
           params |-> <<"address">>],
          [key |-> "balance", name |-> "Get specific token balance",
           path |-> <<"cosmos/bank/v1beta1/balances/", "{", "address", "}", "/by_denom">>,
           params |-> <<"address", "denom">>],
          [key |-> "supply", name |-> "Get total supply",
           path |-> <<"cosmos/bank/v1beta1/supply">>,
           params |-> <<>>],
          [key |-> "denom_metadata", name |-> "Get token metadata",
           path |-> <<"cosmos/bank/v1beta1/denoms_metadata">>,
           params |-> <<>>]>>],
      [key |-> "gov", name |-> "Governance", endpoints |-> <<
          [key |-> "proposals", name |-> "List proposals",
           path |-> <<"cosmos/gov/v1/proposals">>,
           params |-> <<>>],
          [key |-> "proposal", name |-> "Get proposal details",
           path |-> <<"cosmos/gov/v1/proposals/", "{", "proposal_id", "}">>,
           params |-> <<"proposal_id">>],
          [key |-> "tally", name |-> "Get proposal tally",
           path |-> <<"cosmos/gov/v1/proposals/", "{", "proposal_id", "}", "/tally">>,
           params |-> <<"proposal_id">>],
          [key |-> "votes", name |-> "Get proposal votes",
           path |-> <<"cosmos/gov/v1/proposals/", "{", "proposal_id", "}", "/votes">>,
           params |-> <<"proposal_id">>],
          [key |-> "deposits", name |-> "Get proposal deposits",
           path |-> <<"cosmos/gov/v1/proposals/", "{", "proposal_id", "}", "/deposits">>,
           params |-> <<"proposal_id">>],
          [key |-> "params", name |-> "Get governance parameters",
           path |-> <<"cosmos/gov/v1/params">>,
           params |-> <<>>]>>],
      [key |-> "staking", name |-> "Staking", endpoints |-> <<
          [key |-> "validators", name |-> "List validators",
           path |-> <<"cosmos/staking/v1beta1/validators">>,
           params |-> <<>>],
          [key |-> "validator", name |-> "Get validator details",
           path |-> <<"cosmos/staking/v1beta1/validators/", "{", "validator_addr", "}">>,
           params |-> <<"validator_addr">>],
          [key |-> "delegations", name |-> "Get delegations",
           path |-> <<"cosmos/staking/v1beta1/delegations/", "{", "delegator_addr", "}">>,
           params |-> <<"delegator_addr">>],
          [key |-> "delegation", name |-> "Get specific delegation",
           path |-> <<"cosmos/staking/v1beta1/delegators/", "{", "delegator_addr", "}", "/validators/", "{", "validator_addr", "}">>,
           params |-> <<"delegator_addr", "validator_addr">>],
          [key |-> "unbonding_delegations", name |-> "Get unbonding delegations",
           path |-> <<"cosmos/staking/v1beta1/delegators/", "{", "delegator_addr", "}", "/unbonding_delegations">>,
           params |-> <<"delegator_addr">>],
          [key |-> "redelegations", name |-> "Get redelegations",
           path |-> <<"cosmos/staking/v1beta1/delegators/", "{", "delegator_addr", "}", "/redelegations">>,
           params |-> <<"delegator_addr">>],
          [key |-> "pool", name |-> "Get staking pool",
           path |-> <<"cosmos/staking/v1beta1/pool">>,
           params |-> <<>>],
          [key |-> "params", name |-> "Get staking parameters",
           path |-> <<"cosmos/staking/v1beta1/params">>,
           params |-> <<>>]>>],
      [key |-> "distribution", name |-> "Distribution & Rewards", endpoints |-> <<
          [key |-> "rewards", name |-> "Get delegation rewards",
           path |-> <<"cosmos/distribution/v1beta1/delegators/", "{", "delegator_addr", "}", "/rewards">>,
           params |-> <<"delegator_addr">>],
          [key |-> "commission", name |-> "Get validator commission",
           path |-> <<"cosmos/distribution/v1beta1/validators/", "{", "validator_addr", "}", "/commission">>,
           params |-> <<"validator_addr">>],
          [key |-> "community_pool", name |-> "Get community pool",
           path |-> <<"cosmos/distribution/v1beta1/community_pool">>,
           params |-> <<>>],
          [key |-> "params", name |-> "Get distribution parameters",
           path |-> <<"cosmos/distribution/v1beta1/params">>,
           params |-> <<>>]>>],
      [key |-> "slashing", name |-> "Slashing", endpoints |-> <<
          [key |-> "signing_infos", name |-> "Get signing infos",
           path |-> <<"cosmos/slashing/v1beta1/signing_infos">>,
           params |-> <<>>],
          [key |-> "signing_info", name |-> "Get validator signing info",
           path |-> <<"cosmos/slashing/v1beta1/signing_infos/", "{", "cons_address", "}">>,
           params |-> <<"cons_address">>],
          [key |-> "params", name |-> "Get slashing parameters",
           path |-> <<"cosmos/slashing/v1beta1/params">>,
           params |-> <<>>]>>],
      [key |-> "mint", name |-> "Minting", endpoints |-> <<
          [key |-> "inflation", name |-> "Get current inflation",
           path |-> <<"cosmos/mint/v1beta1/inflation">>,
           params |-> <<>>],
          [key |-> "annual_provisions", name |-> "Get annual provisions",
           path |-> <<"cosmos/mint/v1beta1/annual_provisions">>,
           params |-> <<>>],
          [key |-> "params", name |-> "Get minting parameters",
           path |-> <<"cosmos/mint/v1beta1/params">>,
           params |-> <<>>]>>],
      [key |-> "tendermint", name |-> "Tendermint Core", endpoints |-> <<
          [key |-> "node_info", name |-> "Get node info",
           path |-> <<"cosmos/base/tendermint/v1beta1/node_info">>,
           params |-> <<>>],
          [key |-> "syncing", name |-> "Get syncing status",
           path |-> <<"cosmos/base/tendermint/v1beta1/syncing">>,
           params |-> <<>>],
          [key |-> "latest_block", name |-> "Get latest block",
           path |-> <<"cosmos/base/tendermint/v1beta1/blocks/latest">>,
           params |-> <<>>],
          [key |-> "block_by_height", name |-> "Get block by height",
           path |-> <<"cosmos/base/tendermint/v1beta1/blocks/", "{", "height", "}">>,
           params |-> <<"height">>],
          [key |-> "validatorsets", name |-> "Get validator sets",
           path |-> <<"cosmos/base/tendermint/v1beta1/validatorsets/latest">>,
           params |-> <<>>]>>]
    >>

ModuleKeys == {Modules[i].key : i \in 1..Len(Modules)}

Module(m) == Modules[CHOOSE i \in 1..Len(Modules) : Modules[i].key = m]

Endpoint(m, e) ==
    LET es == Module(m).endpoints
    IN es[CHOOSE i \in 1..Len(es) : es[i].key = e]

\* list(d.keys()) of a registry mapping
Keys(entries) == [i \in 1..Len(entries) |-> entries[i].key]

\* the constructor selecting the POS chain
DefaultChain_pos == "pos"

\* the chain the constructor selects
DefaultChain == "evm"

\* the default of the constructor's base_url argument, and another caller's choice
BaseUrlArgs ==
    {<<"https://", "rest.cronos.org", "/">>,
     <<"https://", "rest.mainnet.crypto.org", "/">>,
     <<"http://", "localhost", "/">>}

-----------------------------------------------------------------------------
(* _update_base_url, switch_chain, get_current_chain_info                  *)

\* the value _update_base_url assigns to self.base_url
UpdatedBaseUrl(chain) == Chain(chain).base_url

\* __init__ without its closing _update_base_url(): base_url stays the argument
Construct_keeps_argument(arg) ==
    [current_chain |-> DefaultChain, base_url |-> arg]

\* __init__: [current_chain, base_url] after construction with base_url = arg
Construct(arg) ==
    [current_chain |-> DefaultChain, base_url |-> UpdatedBaseUrl(DefaultChain)]

\* switch_chain assigning current_chain before it tests the key
switch_chain_assigns_first(chain, url, chain_key) ==
    IF chain_key \in ChainKeys
    THEN [ret |-> TRUE, current_chain |-> chain_key, base_url |-> UpdatedBaseUrl(chain_key)]
    ELSE [ret |-> FALSE, current_chain |-> chain_key, base_url |-> url]

\* switch_chain(chain_key) in state <<chain, url>>: the return value and the new state
switch_chain(chain, url, chain_key) ==
    IF chain_key \in ChainKeys
    THEN [ret |-> TRUE, current_chain |-> chain_key, base_url |-> UpdatedBaseUrl(chain_key)]
    ELSE [ret |-> FALSE, current_chain |-> chain, base_url |-> url]

get_current_chain_info(chain) == Chain(chain)

-----------------------------------------------------------------------------
(* make_request: the URL                                                   *)

RECURSIVE LastSlash(_)
\* the prefix of a base URL up to and including its last "/"
LastSlash(base) ==
    IF base = <<>> \/ base[Len(base)] = "/" THEN base
    ELSE LastSlash(SubSeq(base, 1, Len(base) - 1))

\* urljoin(base, rel) for a relative path rel: rel replaces what follows base's last "/"
UrlJoin(base, rel) == LastSlash(base) \o rel

RECURSIVE ReplaceParams(_, _)
\* for key, value in params.items(): url = url.replace("{key}", str(value))
ReplaceParams(url, ps) ==
    IF ps = <<>> THEN url
    ELSE ReplaceParams(Replace(url, <<"{", Head(ps)[1], "}">>, Head(ps)[2]), Tail(ps))

\* the url make_request passes to session.get
RequestUrl(base, endpoint, ps) == ReplaceParams(UrlJoin(base, endpoint), ps)

-----------------------------------------------------------------------------
(* Text the formatter builds: str(), repr(), json.dumps                    *)

NL == "\n"

\* "=" * n, run-length coded: the atom "=*" and the count
Rule(n) == <<"=*">> \o IntToStr(n)

\* " " * n
Spaces(n) == [i \in 1..n |-> " "]

\* the keys of every modelled object, in the order the document lists them
KeyOrder ==
    <<"tally", "balances", "proposals", "validators", "pool", "rewards", "commission",
      "block", "node_info", "total", "params", "inflation", "pagination",
      "yes_count", "no_count", "abstain_count", "no_with_veto_count",
      "denom", "amount", "id", "status", "description", "moniker", "tokens",
      "bonded_tokens", "not_bonded_tokens", "header", "height", "time",
      "proposer_address", "application_version", "name", "version">>

\* list(d.keys()) of a decoded object
ObjKeys(f) == SelectSeq(KeyOrder, LAMBDA k : k \in DOMAIN f)

RECURSIVE PyRepr(_)
RECURSIVE ReprItems(_)
RECURSIVE ReprPairs(_, _)
\* repr(x)
PyRepr(j) ==
    CASE j.t = "null" -> <<"None">>
      [] j.t = "num" -> IntToStr(j.n)
      [] j.t = "str" -> <<"'">> \o j.s \o <<"'">>
      [] j.t = "list" -> <<"[">> \o ReprItems(j.l) \o <<"]">>
      [] j.t = "obj" -> <<"{">> \o ReprPairs(j.o, ObjKeys(j.o)) \o <<"}">>

ReprItems(l) ==
    IF l = <<>> THEN <<>>
    ELSE PyRepr(Head(l)) \o (IF Len(l) > 1 THEN <<", ">> ELSE <<>>) \o ReprItems(Tail(l))

ReprPairs(f, ks) ==
    IF ks = <<>> THEN <<>>
    ELSE <<"'", Head(ks), "'", ": ">> \o PyRepr(f[Head(ks)])
         \o (IF Len(ks) > 1 THEN <<", ">> ELSE <<>>) \o ReprPairs(f, Tail(ks))

\* str(x), as an f-string field formats it
PyStr(j) == IF j.t = "str" THEN j.s ELSE PyRepr(j)

RECURSIVE JsonDumps(_, _, _)
RECURSIVE DumpItems(_, _, _)
RECURSIVE DumpPairs(_, _, _, _)
\* json.dumps(x, indent=indent, ensure_ascii=False), at nesting depth
JsonDumps(j, indent, depth) ==
    CASE j.t = "null" -> <<"null">>
      [] j.t = "num" -> IntToStr(j.n)
      [] j.t = "str" -> <<"\"">> \o j.s \o <<"\"">>
      [] j.t = "list" ->
           IF j.l = <<>> THEN <<"[]">>
           ELSE <<"[", NL>> \o DumpItems(j.l, indent, depth + 1)
                \o <<NL>> \o Spaces(indent * depth) \o <<"]">>
      [] j.t = "obj" ->
           IF DOMAIN j.o = {} THEN <<"{}">>
           ELSE <<"{", NL>> \o DumpPairs(j.o, ObjKeys(j.o), indent, depth + 1)
                \o <<NL>> \o Spaces(indent * depth) \o <<"}">>

DumpItems(l, indent, depth) ==
    IF l = <<>> THEN <<>>
    ELSE Spaces(indent * depth) \o JsonDumps(Head(l), indent, depth)
         \o (IF Len(l) > 1 THEN <<",", NL>> ELSE <<>>) \o DumpItems(Tail(l), indent, depth)

DumpPairs(f, ks, indent, depth) ==
    IF ks = <<>> THEN <<>>
    ELSE Spaces(indent * depth) \o <<"\"", Head(ks), "\"", ": ">>
         \o JsonDumps(f[Head(ks)], indent, depth)
         \o (IF Len(ks) > 1 THEN <<",", NL>> ELSE <<>>) \o DumpPairs(f, Tail(ks), indent, depth)

\* str.title(), on the atoms a proposal status is made of
TitleAtom(c) ==
    CASE c = "unknown" -> "Unknown"
      [] c = "PASSED" -> "Passed"
      [] c = "REJECTED" -> "Rejected"
      [] c = "VOTING_PERIOD" -> "Voting_Period"
      [] c = "PROPOSAL_STATUS_" -> "Proposal_Status_"
      [] OTHER -> c

Title(s) == [i \in 1..Len(s) |-> TitleAtom(s[i])]

\* for x in j: the items a for loop (or a comprehension) visits
IterItems(j) ==
    CASE j.t = "list" -> Ret(j.l)
      [] j.t = "str" -> Ret([i \in 1..Len(j.s) |-> JStr(<<j.s[i]>>)])
      [] j.t = "obj" -> Ret([i \in 1..Len(ObjKeys(j.o)) |-> JStr(<<ObjKeys(j.o)[i]>>)])
      [] OTHER -> Raise("TypeError")

\* j[:n]
SliceTo(j, n) ==
    CASE j.t = "list" -> Ret(JList(SubSeq(j.l, 1, Min(n, Len(j.l)))))
      [] j.t = "str" -> Ret(JStr(SubSeq(j.s, 1, Min(n, Len(j.s)))))
      [] OTHER -> Raise("TypeError")

\* len(j)
PyLen(j) ==
    CASE j.t = "list" -> Ret(Len(j.l))
      [] j.t = "str" -> Ret(Len(j.s))
      [] j.t = "obj" -> Ret(Cardinality(DOMAIN j.o))
      [] OTHER -> Raise("TypeError")

\* the first raised outcome of a sequence of outcomes evaluated in order
FirstRaised(rs) == rs[CHOOSE i \in 1..Len(rs) : rs[i].raised /\ \A k \in 1..(i - 1) : ~rs[k].raised]

AnyRaised(rs) == \E i \in 1..Len(rs) : rs[i].raised

\* the same with the threshold test written >=
LargeNumberStr_at_least(x) ==
    LET n == PyInt(x)
    IN IF n.raised THEN PyStr(x)
       ELSE IF n.v >= 1000000 THEN FormatThousands(n.v) ELSE IntToStr(n.v)

\* the "try: int(x); > 1000000 ? f'{n:,}' : str(n); except: x" of balances and validators
LargeNumberStr(x) ==
    LET n == PyInt(x)
    IN IF n.raised THEN PyStr(x)
       ELSE IF n.v > 1000000 THEN FormatThousands(n.v) ELSE IntToStr(n.v)

-----------------------------------------------------------------------------
(* The shape-specific renderers.  Each returns Ret(text) or Raise(exc).    *)

JZero == JStr(<<"0">>)
JUnknown == JStr(<<"unknown">>)

\* int(tally.get(key, "0"))
TallyCount(tally, key) ==
    LET g == DictGet(tally, key, JZero)
    IN IF g.raised THEN g ELSE PyInt(g.v)

TallyLine(label, count, total) ==
    <<label>> \o FormatThousands(count) \o <<" (">> \o FormatPct(count, total) \o <<")", NL>>

_format_tally(tally) ==
    LET head == <<"PROPOSAL TALLY RESULTS", NL>> \o Rule(40) \o <<NL>>
        cs == <<TallyCount(tally, "yes_count"), TallyCount(tally, "no_count"),
                TallyCount(tally, "abstain_count"), TallyCount(tally, "no_with_veto_count")>>
    IN IF AnyRaised(cs) THEN FirstRaised(cs)
       ELSE LET total == cs[1].v + cs[2].v + cs[3].v + cs[4].v
            IN IF total > 0
               THEN Ret(head \o TallyLine("Yes:     ", cs[1].v, total)
                        \o TallyLine("No:      ", cs[2].v, total)
                        \o TallyLine("Abstain: ", cs[3].v, total)
                        \o TallyLine("Veto:    ", cs[4].v, total)
                        \o <<NL, "Total Votes: ">> \o FormatThousands(total))
               ELSE Ret(head \o <<"No votes cast yet">>)

\* how a "denom: amount" loop renders the amount: balances group large numbers,
\* rewards and commission print the value as it is
AmountText(mode, x) == IF mode = "large" THEN LargeNumberStr(x) ELSE PyStr(x)

\* one pass of a "denom: amount" loop body
CoinLine(coin, mode) ==
    LET denom == DictGet(coin, "denom", JUnknown)
        amount == DictGet(coin, "amount", JZero)
    IN IF denom.raised THEN denom
       ELSE Ret(<<"coin ">> \o PyStr(denom.v) \o <<": ">> \o AmountText(mode, amount.v) \o <<NL>>)

RECURSIVE CoinLines(_, _)
\* for coin in items: result += line
CoinLines(items, mode) ==
    IF items = <<>> THEN Ret(<<>>)
    ELSE LET first == CoinLine(Head(items), mode)
             rest == CoinLines(Tail(items), mode)
         IN IF first.raised THEN first
            ELSE IF rest.raised THEN rest
            ELSE Ret(first.v \o rest.v)

\* a loop over x appending one line per item, after the head
CoinLoop(head, x, mode) ==
    LET items == IterItems(x)
    IN IF items.raised THEN items
       ELSE LET ls == CoinLines(items.v, mode)
            IN IF ls.raised THEN ls ELSE Ret(head \o ls.v)

_format_balances(data) ==
    LET head == <<"ACCOUNT BALANCES", NL>> \o Rule(30) \o <<NL>>
        balances == DictGet(data, "balances", EmptyList)
    IN IF balances.raised THEN balances
       ELSE IF ~Truthy(balances.v) THEN Ret(head \o <<"No balances found">>)
       ELSE CoinLoop(head, balances.v, "large")

ProposalLine(proposal) ==
    LET prop_id == DictGet(proposal, "id", JUnknown)
        status == DictGet(proposal, "status", JUnknown)
    IN IF prop_id.raised THEN prop_id
       ELSE IF status.v.t # "str" THEN Raise("AttributeError")
       ELSE Ret(<<"Proposal #">> \o PyStr(prop_id.v) \o <<": ">>
                \o Title(Replace(status.v.s, <<"PROPOSAL_STATUS_">>, <<>>)) \o <<NL>>)

RECURSIVE ProposalLines(_)
ProposalLines(items) ==
    IF items = <<>> THEN Ret(<<>>)
    ELSE LET first == ProposalLine(Head(items))
             rest == ProposalLines(Tail(items))
         IN IF first.raised THEN first
            ELSE IF rest.raised THEN rest
            ELSE Ret(first.v \o rest.v)

_format_proposals(data) ==
    LET head == <<"GOVERNANCE PROPOSALS", NL>> \o Rule(35) \o <<NL>>
        proposals == DictGet(data, "proposals", EmptyList)
    IN IF proposals.raised THEN proposals
       ELSE IF ~Truthy(proposals.v) THEN Ret(head \o <<"No proposals found">>)
       ELSE LET shown == SliceTo(proposals.v, 5)
            IN IF shown.raised THEN shown
               ELSE LET ls == ProposalLines(IterItems(shown.v).v)
                        n == PyLen(proposals.v).v
                    IN IF ls.raised THEN ls
                       ELSE Ret(head \o ls.v
                                \o IF n > 5
                                   THEN <<"... and ">> \o IntToStr(n - 5) \o <<" more proposals">>
                                   ELSE <<>>)

\* v.get("status") == "BOND_STATUS_BONDED"
IsBonded(v) ==
    LET s == DictGet(v, "status", JNull)
    IN IF s.raised THEN s ELSE Ret(s.v = JStr(<<"BOND_STATUS_BONDED">>))

ValidatorLine(i, validator) ==
    LET description == DictGet(validator, "description", EmptyObj)
        moniker == IF description.raised THEN description
                   ELSE DictGet(description.v, "moniker", JStr(<<"Unknown">>))
        tokens == DictGet(validator, "tokens", JZero)
    IN IF moniker.raised THEN moniker
       ELSE Ret(IntToStr(i) \o <<". ">> \o PyStr(moniker.v) \o <<" - ">>
                \o LargeNumberStr(tokens.v) \o <<" tokens", NL>>)

RECURSIVE ValidatorLines(_, _)
ValidatorLines(i, items) ==
    IF items = <<>> THEN Ret(<<>>)
    ELSE LET first == ValidatorLine(i, Head(items))
             rest == ValidatorLines(i + 1, Tail(items))
         IN IF first.raised THEN first
            ELSE IF rest.raised THEN rest
            ELSE Ret(first.v \o rest.v)

_format_validators(data) ==
    LET head == <<"VALIDATORS", NL>> \o Rule(20) \o <<NL>>
        validators == DictGet(data, "validators", EmptyList)
    IN IF validators.raised THEN validators
       ELSE IF ~Truthy(validators.v) THEN Ret(head \o <<"No validators found">>)
       ELSE LET items == IterItems(validators.v)
            IN IF items.raised THEN items
               ELSE LET bonded == [i \in 1..Len(items.v) |-> IsBonded(items.v[i])]
                    IN IF AnyRaised(bonded) THEN FirstRaised(bonded)
                       ELSE LET active == SelectSeq(items.v, LAMBDA v : IsBonded(v).v)
                                top == SubSeq(active, 1, Min(3, Len(active)))
                                ls == ValidatorLines(1, top)
                            IN IF ls.raised THEN ls
                               ELSE Ret(head
                                        \o <<"Active Validators: ">> \o IntToStr(Len(active)) \o <<NL>>
                                        \o <<"Total Validators: ">>
                                        \o IntToStr(PyLen(validators.v).v) \o <<NL, NL>>
                                        \o ls.v)

_format_pool(data) ==
    LET head == <<"STAKING POOL", NL>> \o Rule(20) \o <<NL>>
        pool == DictGet(data, "pool", EmptyObj)
        bonded_tokens == IF pool.raised THEN pool ELSE DictGet(pool.v, "bonded_tokens", JZero)
        not_bonded_tokens ==
            IF pool.raised THEN pool ELSE DictGet(pool.v, "not_bonded_tokens", JZero)
    IN IF bonded_tokens.raised THEN bonded_tokens
       ELSE LET bonded_num == PyInt(bonded_tokens.v)
                not_bonded_num == PyInt(not_bonded_tokens.v)
            IN IF bonded_num.raised \/ not_bonded_num.raised
               THEN Ret(head \o <<"Bonded:     ">> \o PyStr(bonded_tokens.v) \o <<NL>>
                        \o <<"Unbonded:   ">> \o PyStr(not_bonded_tokens.v))
               ELSE LET total == bonded_num.v + not_bonded_num.v
                    IN Ret(head \o <<"Bonded:     ">> \o FormatThousands(bonded_num.v) \o <<NL>>
                           \o <<"Unbonded:   ">> \o FormatThousands(not_bonded_num.v) \o <<NL>>
                           \o <<"Total:      ">> \o FormatThousands(total) \o <<NL>>
                           \o IF total > 0
                              THEN <<"Bonded %:   ">> \o FormatPct(bonded_num.v, total)
                              ELSE <<>>)

_format_rewards(data) ==
    LET head == <<"DELEGATION REWARDS", NL>> \o Rule(25) \o <<NL>>
        rewards == DictGet(data, "rewards", EmptyList)
        total == DictGet(data, "total", EmptyList)
    IN IF rewards.raised THEN rewards
       ELSE IF Truthy(total.v) THEN CoinLoop(head, total.v, "plain")
       ELSE Ret(head \o <<"No rewards available">>)

_format_commission(data) ==
    LET head == <<"VALIDATOR COMMISSION", NL>> \o Rule(30) \o <<NL>>
        commission == DictGet(data, "commission", EmptyObj)
        commission_amount ==
            IF commission.raised THEN commission
            ELSE DictGet(commission.v, "commission", EmptyList)
    IN IF commission_amount.raised THEN commission_amount
       ELSE IF Truthy(commission_amount.v) THEN CoinLoop(head, commission_amount.v, "plain")
       ELSE Ret(head \o <<"No commission data">>)

_format_block(data) ==
    LET head == <<"BLOCK INFORMATION", NL>> \o Rule(25) \o <<NL>>
        block == DictGet(data, "block", EmptyObj)
        header == IF block.raised THEN block ELSE DictGet(block.v, "header", EmptyObj)
        height == IF header.raised THEN header ELSE DictGet(header.v, "height", JUnknown)
    IN IF height.raised THEN height
       ELSE LET time == DictGet(header.v, "time", JUnknown)
                proposer == DictGet(header.v, "proposer_address", JUnknown)
                cut == SliceTo(proposer.v, 20)
            IN IF cut.raised THEN cut
               ELSE Ret(head \o <<"Height:    ">> \o PyStr(height.v) \o <<NL>>
                        \o <<"Time:      ">> \o PyStr(time.v) \o <<NL>>
                        \o <<"Proposer:  ">> \o PyStr(cut.v) \o <<"...">>)

_format_node_info(chain, data) ==
    LET head == <<"NODE INFORMATION", NL>> \o Rule(25) \o <<NL>>
        node_info == DictGet(data, "node_info", EmptyObj)
        application_version ==
            IF node_info.raised THEN node_info
            ELSE DictGet(node_info.v, "application_version", EmptyObj)
        version == IF application_version.raised THEN application_version
                   ELSE DictGet(application_version.v, "version", JUnknown)
    IN IF version.raised THEN version
       ELSE LET name == DictGet(application_version.v, "name", JUnknown)
            IN Ret(head \o <<"Name:    ">> \o PyStr(name.v) \o <<NL>>
                   \o <<"Version: ">> \o PyStr(version.v) \o <<NL>>
                   \o <<"Network: ", get_current_chain_info(chain).name>>)

-----------------------------------------------------------------------------
(* format_response                                                         *)

\* format_response with the balances test moved ahead of the tally test
format_response_balances_first(chain, data) ==
    IF ~Truthy(data) THEN Ret(<<"No data received">>)
    ELSE LET has(k) == Contains(data, k)
         IN IF has("balances").raised THEN has("balances")
            ELSE IF has("balances").v THEN _format_balances(data)
            ELSE IF has("tally").v
                 THEN LET tally == Subscript(data, "tally")
                      IN IF tally.raised THEN tally ELSE _format_tally(tally.v)
            ELSE IF has("proposals").v THEN _format_proposals(data)
            ELSE IF has("validators").v THEN _format_validators(data)
            ELSE IF has("pool").v THEN _format_pool(data)
            ELSE IF has("rewards").v THEN _format_rewards(data)
            ELSE IF has("commission").v THEN _format_commission(data)
            ELSE IF has("block").v THEN _format_block(data)
            ELSE IF has("node_info").v THEN _format_node_info(chain, data)
            ELSE Ret(JsonDumps(data, 2, 0))

\* the if / elif chain of format_response
format_response(chain, data) ==
    IF ~Truthy(data) THEN Ret(<<"No data received">>)
    ELSE LET has(k) == Contains(data, k)
         IN IF has("tally").raised THEN has("tally")
            ELSE IF has("tally").v
                 THEN LET tally == Subscript(data, "tally")
                      IN IF tally.raised THEN tally ELSE _format_tally(tally.v)
            ELSE IF has("balances").v THEN _format_balances(data)
            ELSE IF has("proposals").v THEN _format_proposals(data)
            ELSE IF has("validators").v THEN _format_validators(data)
            ELSE IF has("pool").v THEN _format_pool(data)
            ELSE IF has("rewards").v THEN _format_rewards(data)
            ELSE IF has("commission").v THEN _format_commission(data)
            ELSE IF has("block").v THEN _format_block(data)
            ELSE IF has("node_info").v THEN _format_node_info(chain, data)
            ELSE Ret(JsonDumps(data, 2, 0))

-----------------------------------------------------------------------------
(* Standard input: what one input() call meets                             *)

Line(s) == [e |-> "line", s |-> s]
Interrupt == [e |-> "interrupt"]       \* KeyboardInterrupt raised inside input()
Eof == [e |-> "eof"]                   \* EOFError raised inside input()

\* lines typed at a numbered menu
MenuLines ==
    {<<Digits[d]>> : d \in 1..10}
    \cup {<<"a", "b", "c">>, <<"9", "9">>, <<" ", "2", " ">>, <<>>, <<"-", "1">>, <<"+", "3">>}

\* lines typed at a free-text parameter prompt
ParamLines ==
    {<<>>, <<" ">>, <<"cro1abc">>, <<" ", "7", " ">>,
     <<"{", "denom", "}">>, <<"{", "validator_addr", "}">>}

\* lines typed at the post-query prompt
ContinueLines ==
    {<<>>, <<"q">>, <<"query">>, <<"y">>, <<"yes">>, <<"e">>, <<"exit">>, <<"EXIT">>,
     <<"s">>, <<" ", "S", " ">>, <<"switch">>, <<"x">>, <<"n">>}

Events(lines) == {Line(s) : s \in lines} \cup {Interrupt, Eof}

Goodbye == <<"Goodbye!">>
InvalidNumberMsg == <<"Please enter a valid number">>
OutOfRangeMsg(n) == <<"Please enter a number between 1 and ">> \o IntToStr(n)
RequiredMsg == <<"This field is required">>

-----------------------------------------------------------------------------
(* display_menu and get_user_input: one pass of the while True loop        *)

\* the prompt's interrupt clause re-prompting in place of sys.exit(0)
PromptInterrupted_reprompts == [k |-> "reprompt", msg |-> Goodbye]

\* the except KeyboardInterrupt clause of both prompt loops
PromptInterrupted == [k |-> "exit", msg |-> Goodbye, code |-> 0]

\* display_menu with the range test and the index off by one (0-based choice)
display_menu_zero_based(options, ev) ==
    CASE ev.e = "interrupt" -> PromptInterrupted
      [] ev.e = "eof" -> [k |-> "raise", exc |-> "EOFError"]
      [] ev.e = "line" ->
           LET choice_num == ParseInt(Strip(ev.s))
           IN IF choice_num.raised
              THEN [k |-> "reprompt", msg |-> InvalidNumberMsg]
              ELSE IF 0 <= choice_num.v /\ choice_num.v < Len(options)
                   THEN [k |-> "return", v |-> options[choice_num.v + 1]]
                   ELSE [k |-> "reprompt", msg |-> OutOfRangeMsg(Len(options))]

\* display_menu(title, options), one input(): options are the keys in insertion order
display_menu(options, ev) ==
    CASE ev.e = "interrupt" -> PromptInterrupted
      [] ev.e = "eof" -> [k |-> "raise", exc |-> "EOFError"]
      [] ev.e = "line" ->
           LET choice_num == ParseInt(Strip(ev.s))
           IN IF choice_num.raised
              THEN [k |-> "reprompt", msg |-> InvalidNumberMsg]
              ELSE IF 1 <= choice_num.v /\ choice_num.v <= Len(options)
                   THEN [k |-> "return", v |-> options[choice_num.v]]
                   ELSE [k |-> "reprompt", msg |-> OutOfRangeMsg(Len(options))]

\* get_user_input returning whatever was typed: no strip, no required test
get_user_input_unchecked(required, ev) ==
    CASE ev.e = "interrupt" -> PromptInterrupted
      [] ev.e = "eof" -> [k |-> "raise", exc |-> "EOFError"]
      [] ev.e = "line" -> [k |-> "return", v |-> ev.s]

\* get_user_input(prompt, required), one input()
get_user_input(required, ev) ==
    CASE ev.e = "interrupt" -> PromptInterrupted
      [] ev.e = "eof" -> [k |-> "raise", exc |-> "EOFError"]
      [] ev.e = "line" ->
           LET value == Strip(ev.s)
           IN IF value = <<>> /\ required
              THEN [k |-> "reprompt", msg |-> RequiredMsg]
              ELSE [k |-> "return", v |-> value]

-----------------------------------------------------------------------------
(* display_menu on its own, over each menu run() builds                    *)

\* most lines one display_menu call is followed through
MaxMenuInputs == 3

\* the option keys of every menu of run(): chains, modules, each module's endpoints
ProgramMenus ==
    {Keys(Chains), Keys(Modules)} \cup {Keys(Modules[i].endpoints) : i \in 1..Len(Modules)}

SessionIdle ==
    /\ pc = "idle"
    /\ selected_module = None
    /\ selected_endpoint = None
    /\ params = <<>>
    /\ result = JNull
    /\ requested = <<>>
    /\ out = <<>>
    /\ last_act = "init"
    /\ last_input = NoInput
    /\ exit_code = 0

Constructed(arg) ==
    /\ current_chain = Construct(arg).current_chain
    /\ base_url = Construct(arg).base_url

MenuIdle ==
    /\ menu_options = <<>>
    /\ menu_inputs = <<>>
    /\ menu_msgs = <<>>
    /\ menu_state = "idle"
    /\ menu_ret = None

FmtIdle ==
    /\ fmt_in = JNull
    /\ fmt_out = [done |-> FALSE]

MenuInit ==
    /\ SessionIdle
    /\ \E arg \in BaseUrlArgs : Constructed(arg)
    /\ FmtIdle
    /\ api_call = [op |-> "none"]
    /\ menu_options \in ProgramMenus
    /\ menu_inputs = <<>>
    /\ menu_msgs = <<>>
    /\ menu_state = "prompting"
    /\ menu_ret = None

\* one input() of the call, and what display_menu does with it
MenuRead ==
    /\ menu_state = "prompting"
    /\ Len(menu_inputs) < MaxMenuInputs
    /\ \E ev \in Events(MenuLines) :
         LET r == display_menu(menu_options, ev)
         IN /\ menu_inputs' = Append(menu_inputs, ev)
            /\ menu_msgs' = IF r.k = "reprompt" THEN Append(menu_msgs, r.msg) ELSE menu_msgs
            /\ menu_state' = CASE r.k = "return" -> "returned"
                               [] r.k = "reprompt" -> "prompting"
                               [] r.k = "exit" -> "exited"
                               [] r.k = "raise" -> "raised"
            /\ menu_ret' = IF r.k = "return" THEN r.v ELSE None
    /\ UNCHANGED <<menu_options, sessionVars, chainVars, fmtVars, api_call>>

MenuNext == MenuRead

SpecMenu == MenuInit /\ [][MenuNext]_vars


\* the integers a typed line may denote
TypedRange == (0 - 99)..99

\* the line, trimmed, is the decimal numeral of v (with or without a plus sign)
IsNumeralOf(s, v) == Strip(s) = IntToStr(v) \/ Strip(s) = <<"+">> \o IntToStr(v)

Numerals == {IntToStr(v) : v \in TypedRange}

IsNumeral(s) ==
    LET t == Strip(s)
    IN t \in Numerals \/ (t # <<>> /\ Head(t) = "+" /\ Tail(t) \in Numerals)

\* the line is an integer within [1, n]
ValidChoice(s, n) == \E v \in 1..n : IsNumeralOf(s, v)

\* C2: display_menu re-prompts, with the message of the failure mode, on every line
\* that is not an integer within [1, n], and on the first line that is one it returns
\* the key at that 1-based position; "abc", "99", "2" against 3 options re-prompts
\* twice and returns the 2nd key.
C2_MenuReturnsFirstValid ==
    LET n == Len(menu_options)
        isLine(i) == menu_inputs[i].e = "line"
        valid(i) == isLine(i) /\ ValidChoice(menu_inputs[i].s, n)
        invalid(i) == isLine(i) /\ ~ValidChoice(menu_inputs[i].s, n)
        last == Len(menu_inputs)
    IN /\ InvalidNumberMsg # OutOfRangeMsg(n)
       /\ \A i \in 1..last :
            /\ invalid(i) =>
                 /\ i <= Len(menu_msgs)
                 /\ menu_msgs[i] = IF IsNumeral(menu_inputs[i].s)
                                   THEN OutOfRangeMsg(n) ELSE InvalidNumberMsg
                 /\ i = last => menu_state = "prompting" /\ menu_ret = None
            /\ valid(i) =>
                 /\ i = last
                 /\ menu_state = "returned"
                 /\ Len(menu_msgs) = i - 1
                 /\ \E v \in 1..n : IsNumeralOf(menu_inputs[i].s, v) /\ menu_ret = menu_options[v]
       /\ menu_state = "returned" => last > 0 /\ valid(last)
       /\ (n = 3 /\ menu_inputs = <<Line(<<"a", "b", "c">>), Line(<<"9", "9">>), Line(<<"2">>)>>)
            => /\ Len(menu_msgs) = 2
               /\ menu_state = "returned"
               /\ menu_ret = menu_options[2]

\* the auth endpoint menu (3 options) fed "abc", "99", "2" has returned "accounts"
C2_Witness ==
    /\ menu_options = <<"account", "accounts", "params">>
    /\ menu_inputs = <<Line(<<"a", "b", "c">>), Line(<<"9", "9">>), Line(<<"2">>)>>
    /\ menu_msgs = <<InvalidNumberMsg, OutOfRangeMsg(3)>>
    /\ menu_ret = "accounts"

-----------------------------------------------------------------------------
(* Decoded response bodies the formatter is given                          *)

\* longest list of coins in a modelled balances / rewards / commission response
MaxCoins == 2
\* longest run of one entry in a modelled proposals list
MaxProposals == 7
\* longest run of one entry in a modelled validators list
MaxValidatorRun == 2

RecognizedKeys ==
    <<"tally", "balances", "proposals", "validators", "pool", "rewards", "commission",
      "block", "node_info">>

Obj1(k, v) == JObj(k :> v)

\* an object field that is absent or holds one of vals
OptField(k, vals) == {NoKeys} \cup {k :> v : v \in vals}

\* n copies of e
Repeat(e, n) == [i \in 1..n |-> e]

\* every list of at most n items of S
ListsUpTo(S, n) == UNION {[1..k -> S] : k \in 0..n}

NumStr(n) == JStr(IntToStr(n))

TallyObjs ==
    {JObj(a @@ b @@ c @@ d) :
        a \in OptField("yes_count", {NumStr(70), NumStr(2000000), JStr(<<"a", "b", "c">>)}),
        b \in OptField("no_count", {NumStr(20), JNum(20)}),
        c \in OptField("abstain_count", {NumStr(5), JNull}),
        d \in OptField("no_with_veto_count", {NumStr(5), JStr(<<"5", ".", "0">>)})}

CoinObjs ==
    {JObj(a @@ b) :
        a \in OptField("denom", {JStr(<<"basecro">>)}),
        b \in OptField("amount", {NumStr(500), NumStr(1000000), NumStr(1000001),
                                  NumStr(2000000), JStr(<<" ", "0", "0", "7">>),
                                  JStr(<<"1", ".", "5">>)})}

CoinLists == {JList(l) : l \in ListsUpTo(CoinObjs, MaxCoins)}

ProposalObjs ==
    {JObj(a @@ b) :
        a \in OptField("id", {NumStr(1)}),
        b \in OptField("status", {JStr(<<"PROPOSAL_STATUS_", "PASSED">>),
                                  JStr(<<"PROPOSAL_STATUS_", "VOTING_PERIOD">>), JNull})}

ProposalLists == {JList(Repeat(e, n)) : e \in ProposalObjs, n \in 0..MaxProposals}

ValidatorObjs ==
    {JObj(a @@ b @@ c) :
        a \in OptField("status", {JStr(<<"BOND_STATUS_BONDED">>), JStr(<<"BOND_STATUS_UNBONDED">>)}),
        b \in OptField("description", {EmptyObj, Obj1("moniker", JStr(<<"alice">>))}),
        c \in OptField("tokens", {NumStr(2000000)})}

ValidatorLists ==
    {JList(Repeat(e1, n1) \o Repeat(e2, n2)) :
        e1 \in ValidatorObjs, e2 \in ValidatorObjs, n1 \in 0..MaxValidatorRun, n2 \in 0..MaxValidatorRun}

PoolObjs ==
    {JObj(a @@ b) :
        a \in OptField("bonded_tokens", {NumStr(300), JStr(<<"x">>)}),
        b \in OptField("not_bonded_tokens", {NumStr(100), NumStr(0)})}

CommissionObjs == {JObj(a) : a \in OptField("commission", CoinLists)}

LongAddress == JStr([i \in 1..25 |-> IF i <= 20 THEN "A" ELSE "B"])

HeaderObjs ==
    {JObj(a @@ b @@ c) :
        a \in OptField("height", {NumStr(42)}),
        b \in OptField("time", {JStr(<<"2024-01-01T00:00:00Z">>)}),
        c \in OptField("proposer_address", {LongAddress, JStr(<<"A", "B">>)})}

BlockObjs == {JObj(a) : a \in OptField("header", HeaderObjs)}

VersionObjs ==
    {JObj(a @@ b) :
        a \in OptField("name", {JStr(<<"cronos">>)}),
        b \in OptField("version", {JStr(<<"v1.0.0">>)})}

NodeInfoObjs == {JObj(a) : a \in OptField("application_version", VersionObjs)}

\* the well-shaped values of a recognized key
ShapedValues(k) ==
    CASE k = "tally" -> TallyObjs
      [] k = "balances" -> CoinLists
      [] k = "proposals" -> ProposalLists
      [] k = "validators" -> ValidatorLists
      [] k = "pool" -> PoolObjs
      [] k = "rewards" -> CoinLists
      [] k = "commission" -> CommissionObjs
      [] k = "block" -> BlockObjs
      [] k = "node_info" -> NodeInfoObjs

\* one plain value of a recognized key
TypicalValue(k) ==
    CASE k = "tally" -> JObj("yes_count" :> NumStr(70) @@ "no_count" :> NumStr(20)
                             @@ "abstain_count" :> NumStr(5) @@ "no_with_veto_count" :> NumStr(5))
      [] k \in {"balances", "rewards"} ->
           JList(<<JObj("denom" :> JStr(<<"basecro">>) @@ "amount" :> NumStr(2000000))>>)
      [] k = "proposals" ->
           JList(<<JObj("id" :> NumStr(1) @@ "status" :> JStr(<<"PROPOSAL_STATUS_", "PASSED">>))>>)
      [] k = "validators" ->
           JList(<<JObj("status" :> JStr(<<"BOND_STATUS_BONDED">>) @@ "tokens" :> NumStr(2000000))>>)
      [] k = "pool" -> JObj("bonded_tokens" :> NumStr(300) @@ "not_bonded_tokens" :> NumStr(100))
      [] k = "commission" -> Obj1("commission", EmptyList)
      [] k = "block" -> Obj1("header", Obj1("height", NumStr(42)))
      [] k = "node_info" -> Obj1("application_version", Obj1("name", JStr(<<"cronos">>)))

\* a body with one recognized key: well shaped, or an empty list, or an empty object
OneKeyBodies ==
    UNION {{Obj1(RecognizedKeys[i], v) :
              v \in ShapedValues(RecognizedKeys[i]) \cup {EmptyList, EmptyObj}} :
           i \in 1..Len(RecognizedKeys)}

\* a rewards body with its total list
RewardBodies == {JObj("rewards" :> r @@ "total" :> t) : r \in {EmptyList}, t \in CoinLists}

\* bodies holding several recognized keys at once
ManyKeyBodies ==
    {JObj([k \in {RecognizedKeys[i], RecognizedKeys[j]} |-> TypicalValue(k)]) :
        i \in 1..Len(RecognizedKeys), j \in 1..Len(RecognizedKeys)}
    \cup {JObj([k \in Range(RecognizedKeys) |-> TypicalValue(k)])}

\* bodies with no recognized key
OtherBodies ==
    {EmptyObj,
     Obj1("inflation", JStr(<<"0.13">>)),
     Obj1("params", Obj1("denom", JStr(<<"basecro">>))),
     JObj("params" :> EmptyList @@ "pagination" :> JNull)}

\* bodies that are not objects
NonObjectBodies ==
    {JNull, JNum(0), JNum(5), JStr(<<>>), JStr(<<"tally">>), EmptyList,
     JList(<<JStr(<<"tally">>)>>), JList(<<JStr(<<"balances">>)>>), JList(<<JNum(1)>>)}

Responses == OneKeyBodies \cup RewardBodies \cup ManyKeyBodies \cup OtherBodies \cup NonObjectBodies

-----------------------------------------------------------------------------
(* format_response on its own                                              *)

FormatInit ==
    /\ SessionIdle
    /\ MenuIdle
    /\ api_call = [op |-> "none"]
    /\ \E k \in ChainKeys :
         /\ current_chain = k
         /\ base_url = UpdatedBaseUrl(k)
    /\ fmt_in \in Responses
    /\ fmt_out = [done |-> FALSE]

\* print(self.format_response(result)) for one decoded body
FormatCall ==
    /\ ~fmt_out.done
    /\ fmt_out' = [done |-> TRUE, r |-> format_response(current_chain, fmt_in)]
    /\ UNCHANGED <<fmt_in, sessionVars, chainVars, menuVars, api_call>>

FormatNext == FormatCall

SpecFormat == FormatInit /\ [][FormatNext]_vars


-----------------------------------------------------------------------------
(* make_request: what session.get, raise_for_status and response.json()    *)
(* can do, and what make_request makes of it                               *)

\* bodies a request of the session is answered with
SessionResponses ==
    NonObjectBodies \cup OtherBodies
    \cup UNION {{Obj1(RecognizedKeys[i], v) :
                    v \in {TypicalValue(RecognizedKeys[i]), EmptyList, EmptyObj}} :
                 i \in 1..Len(RecognizedKeys)}
    \cup {Obj1("tally", Obj1("yes_count", JStr(<<"a", "b", "c">>))),
          JObj("tally" :> TypicalValue("tally") @@ "balances" :> TypicalValue("balances"))}

\* transport: ConnectionError / Timeout raised by session.get;
\* http_status: HTTPError raised by raise_for_status;
\* bad_json: the body is not JSON, raised by response.json() as
\*   requests.exceptions.JSONDecodeError (a RequestException) or, by an older
\*   requests, as json.JSONDecodeError;
\* interrupt: KeyboardInterrupt while the request is in flight
FailureKinds == {"transport", "http_status", "bad_json_requests", "bad_json_stdlib"}

Outcomes(bodies) ==
    {[kind |-> k] : k \in FailureKinds \cup {"interrupt"}}
    \cup {[kind |-> "ok", body |-> b] : b \in bodies}

\* make_request without its except json.JSONDecodeError clause
make_request_no_json_clause(base, endpoint, ps, outcome) ==
    LET url == RequestUrl(base, endpoint, ps)
    IN CASE outcome.kind = "ok" ->
              [url |-> url, printed |-> <<>>, r |-> Ret(outcome.body)]
         [] outcome.kind \in {"transport", "http_status", "bad_json_requests"} ->
              [url |-> url, printed |-> <<<<"Error making request: ", outcome.kind>>>>,
               r |-> Ret(JNull)]
         [] outcome.kind = "bad_json_stdlib" ->
              [url |-> url, printed |-> <<>>, r |-> Raise("JSONDecodeError")]
         [] outcome.kind = "interrupt" ->
              [url |-> url, printed |-> <<>>, r |-> Raise("KeyboardInterrupt")]

\* make_request(endpoint, params) when the network does `outcome`:
\* the url requested, what is printed, and the value returned (None is JNull) or raised
make_request(base, endpoint, ps, outcome) ==
    LET url == RequestUrl(base, endpoint, ps)
    IN CASE outcome.kind = "ok" ->
              [url |-> url, printed |-> <<>>, r |-> Ret(outcome.body)]
         [] outcome.kind \in {"transport", "http_status", "bad_json_requests"} ->
              [url |-> url, printed |-> <<<<"Error making request: ", outcome.kind>>>>,
               r |-> Ret(JNull)]
         [] outcome.kind = "bad_json_stdlib" ->
              [url |-> url, printed |-> <<<<"Error parsing JSON response: ", outcome.kind>>>>,
               r |-> Ret(JNull)]
         [] outcome.kind = "interrupt" ->
              [url |-> url, printed |-> <<>>, r |-> Raise("KeyboardInterrupt")]

-----------------------------------------------------------------------------
(* run(): the interactive session                                          *)

Terminal == {"returned", "exited", "crashed"}

SessionInit ==
    /\ pc = "chain_menu"
    /\ \E arg \in BaseUrlArgs : Constructed(arg)
    /\ selected_module = None
    /\ selected_endpoint = None
    /\ params = <<>>
    /\ result = JNull
    /\ requested = <<>>
    /\ out = <<<<"Welcome to Cronos Chain Data Query CLI">>>>
    /\ last_act = "init"
    /\ last_input = NoInput
    /\ exit_code = 0
    /\ MenuIdle
    /\ FmtIdle
    /\ api_call = [op |-> "none"]

\* sys.exit(0) in a prompt's except KeyboardInterrupt: SystemExit leaves run()
Exited(r) ==
    /\ pc' = "exited"
    /\ out' = <<r.msg>>
    /\ exit_code' = r.code

\* the while loop without its except Exception clause: the error leaves run() and main()
LoopError_uncaught(exc) ==
    /\ pc' = "crashed"
    /\ out' = <<<<"Traceback: ", exc>>>>
    /\ exit_code' = 1

\* the except Exception clause of the while loop: report, continue
LoopError(exc) ==
    /\ pc' = "module_menu"
    /\ out' = <<<<"An error occurred: ", exc>>>>
    /\ exit_code' = exit_code

\* the except KeyboardInterrupt clause of the while loop, and the exit branches: break
LoopBreak ==
    /\ pc' = "returned"
    /\ out' = <<Goodbye>>
    /\ exit_code' = exit_code

\* the locals of the iteration that has ended are dead: the next one assigns each
\* before it reads it
FreshIteration ==
    /\ selected_endpoint' = None
    /\ params' = <<>>
    /\ result' = JNull
    /\ requested' = <<>>

\* the chain menu of a switch: display_menu, then switch_chain on the key returned
ChainChoice(ev, announce, onward) ==
    LET r == display_menu(Keys(Chains), ev)
    IN CASE r.k = "return" ->
              LET sw == switch_chain(current_chain, base_url, r.v)
              IN /\ current_chain' = sw.current_chain
                 /\ base_url' = sw.base_url
                 /\ exit_code' = exit_code
                 /\ IF sw.ret
                    THEN /\ out' = <<<<announce, get_current_chain_info(sw.current_chain).name>>,
                                     <<"Base URL: ">> \o sw.base_url>>
                         /\ pc' = "module_menu"
                    ELSE /\ out' = <<<<"Invalid chain selection">>>>
                         /\ pc' = onward
         [] r.k = "reprompt" ->
              /\ out' = <<r.msg>>
              /\ UNCHANGED <<pc, chainVars, exit_code>>
         [] r.k = "exit" -> Exited(r) /\ UNCHANGED chainVars
         [] r.k = "raise" ->
              /\ UNCHANGED chainVars
              /\ IF pc = "chain_menu"
                 THEN /\ pc' = "crashed"
                      /\ out' = <<<<"Traceback: ", r.exc>>>>
                      /\ exit_code' = 1
                 ELSE LoopError(r.exc)

\* lines 599-607: the startup chain menu, outside the loop
StartupChainMenu ==
    /\ pc = "chain_menu"
    /\ \E ev \in Events(MenuLines) :
         /\ ChainChoice(ev, "Selected: ", "returned")
         /\ last_input' = ev
    /\ last_act' = "chain_menu"
    /\ UNCHANGED <<selected_module, selected_endpoint, params, result, requested, asideVars>>

\* line 613: the module menu
ModuleMenu ==
    /\ pc = "module_menu"
    /\ \E ev \in Events(MenuLines) :
         LET r == display_menu(Keys(Modules), ev)
         IN /\ last_input' = ev
            /\ FreshIteration
            /\ CASE r.k = "return" ->
                      /\ pc' = "endpoint_menu"
                      /\ out' = <<>>
                      /\ exit_code' = exit_code
                 [] r.k = "reprompt" ->
                      /\ out' = <<r.msg>>
                      /\ UNCHANGED <<pc, exit_code>>
                 [] r.k = "exit" -> Exited(r)
                 [] r.k = "raise" -> LoopError(r.exc)
            /\ selected_module' = IF r.k = "return" THEN r.v ELSE None
    /\ last_act' = "module_menu"
    /\ UNCHANGED <<chainVars, asideVars>>

\* lines 616-620: the endpoint menu of the selected module
EndpointMenu ==
    /\ pc = "endpoint_menu"
    /\ \E ev \in Events(MenuLines) :
         LET r == display_menu(Keys(Module(selected_module).endpoints), ev)
         IN /\ last_input' = ev
            /\ CASE r.k = "return" ->
                      /\ selected_endpoint' = r.v
                      /\ pc' = IF Endpoint(selected_module, r.v).params = <<>>
                               THEN "request" ELSE "param_entry"
                      /\ out' = <<>>
                      /\ exit_code' = exit_code
                 [] r.k = "reprompt" ->
                      /\ out' = <<r.msg>>
                      /\ UNCHANGED <<pc, exit_code, selected_endpoint>>
                 [] r.k = "exit" -> Exited(r) /\ UNCHANGED selected_endpoint
                 [] r.k = "raise" -> LoopError(r.exc) /\ UNCHANGED selected_endpoint
    /\ last_act' = "endpoint_menu"
    /\ UNCHANGED <<chainVars, selected_module, params, result, requested, asideVars>>

\* lines 623-642: one get_user_input of the loop over endpoint_info["params"]
ParamEntry ==
    /\ pc = "param_entry"
    /\ \E ev \in Events(ParamLines) :
         LET endpoint_info == Endpoint(selected_module, selected_endpoint)
             param == endpoint_info.params[Len(params) + 1]
             r == get_user_input(TRUE, ev)
         IN /\ last_input' = ev
            /\ CASE r.k = "return" ->
                      /\ params' = Append(params, <<param, r.v>>)
                      /\ pc' = IF Len(params) + 1 = Len(endpoint_info.params)
                               THEN "request" ELSE "param_entry"
                      /\ out' = <<>>
                      /\ exit_code' = exit_code
                 [] r.k = "reprompt" ->
                      /\ out' = <<r.msg>>
                      /\ UNCHANGED <<pc, exit_code, params>>
                 [] r.k = "exit" -> Exited(r) /\ UNCHANGED params
                 [] r.k = "raise" -> LoopError(r.exc) /\ UNCHANGED params
    /\ last_act' = "param_entry"
    /\ UNCHANGED <<chainVars, selected_module, selected_endpoint, result, requested, asideVars>>

\* lines 645-646: result = self.make_request(endpoint_info["path"], params)
Request ==
    /\ pc = "request"
    /\ \E outcome \in Outcomes(SessionResponses) :
         LET endpoint_info == Endpoint(selected_module, selected_endpoint)
             m == make_request(base_url, endpoint_info.path, params, outcome)
         IN /\ requested' = m.url
            /\ last_input' = [e |-> "network", kind |-> outcome.kind]
            /\ IF m.r.raised
               THEN /\ result' = result
                    /\ IF m.r.exc = "KeyboardInterrupt" THEN LoopBreak ELSE LoopError(m.r.exc)
               ELSE /\ result' = m.r.v
                    /\ pc' = "render"
                    /\ out' = <<<<"Making request to ">> \o endpoint_info.path>> \o m.printed
                    /\ exit_code' = exit_code
    /\ last_act' = "request"
    /\ UNCHANGED <<chainVars, selected_module, selected_endpoint, params, asideVars>>

\* lines 648-656: show the formatted result or the failure notice, then the current chain
Render ==
    /\ pc = "render"
    /\ LET current == <<"Current chain: ", get_current_chain_info(current_chain).name>>
       IN IF Truthy(result)
          THEN LET text == format_response(current_chain, result)
               IN IF text.raised
                  THEN LoopError(text.exc)
                  ELSE /\ out' = <<<<"Result:">>, text.v, current>>
                       /\ pc' = "post_prompt"
                       /\ exit_code' = exit_code
          ELSE /\ out' = <<<<"Failed to retrieve data">>, current>>
               /\ pc' = "post_prompt"
               /\ exit_code' = exit_code
    /\ last_act' = "render"
    /\ UNCHANGED <<chainVars, selected_module, selected_endpoint, params, result, requested,
                   last_input, asideVars>>

ExitWords == {<<"e">>, <<"exit">>}
SwitchWords == {<<"s">>, <<"switch">>}
QueryWords == {<<"q">>, <<"query">>, <<"y">>, <<"yes">>, <<>>}

\* lines 657-660, 661, 678-680: the post-query prompt, a bare input()
PostPrompt ==
    /\ pc = "post_prompt"
    /\ \E ev \in Events(ContinueLines) :
         /\ last_input' = ev
         /\ CASE ev.e = "interrupt" -> LoopBreak
              [] ev.e = "eof" -> LoopError("EOFError")
              [] ev.e = "line" ->
                   LET continue_choice == Lower(Strip(ev.s))
                   IN IF continue_choice \in ExitWords THEN LoopBreak
                      ELSE IF continue_choice \in SwitchWords
                           THEN /\ pc' = "switch_menu"
                                /\ out' = <<>>
                                /\ exit_code' = exit_code
                      ELSE IF continue_choice \notin QueryWords THEN LoopBreak
                      ELSE /\ pc' = "module_menu"
                           /\ out' = <<>>
                           /\ exit_code' = exit_code
    /\ last_act' = "post_prompt"
    /\ selected_module' = None
    /\ FreshIteration
    /\ UNCHANGED <<chainVars, asideVars>>

\* lines 662-677: the chain menu of the 'switch' action
SwitchChainMenu ==
    /\ pc = "switch_menu"
    /\ \E ev \in Events(MenuLines) :
         /\ ChainChoice(ev, "Switched to: ", "module_menu")
         /\ last_input' = ev
    /\ last_act' = "switch_menu"
    /\ UNCHANGED <<selected_module, selected_endpoint, params, result, requested, asideVars>>

Next ==
    \/ StartupChainMenu
    \/ ModuleMenu
    \/ EndpointMenu
    \/ ParamEntry
    \/ Request
    \/ Render
    \/ PostPrompt
    \/ SwitchChainMenu

Spec == SessionInit /\ [][Next]_vars

-----------------------------------------------------------------------------
(* Claims about format_response                                            *)

\* the dispatch order the claim states
DispatchOrder ==
    <<"tally", "balances", "proposals", "validators", "pool", "rewards", "commission",
      "block", "node_info">>

\* the renderer of one recognized key, applied to the body
ApplyRenderer(k, chain, data) ==
    CASE k = "tally" -> _format_tally(data.o["tally"])
      [] k = "balances" -> _format_balances(data)
      [] k = "proposals" -> _format_proposals(data)
      [] k = "validators" -> _format_validators(data)
      [] k = "pool" -> _format_pool(data)
      [] k = "rewards" -> _format_rewards(data)
      [] k = "commission" -> _format_commission(data)
      [] k = "block" -> _format_block(data)
      [] k = "node_info" -> _format_node_info(chain, data)

\* the title line each renderer starts its text with
RendererTitle(k) ==
    CASE k = "tally" -> "PROPOSAL TALLY RESULTS"
      [] k = "balances" -> "ACCOUNT BALANCES"
      [] k = "proposals" -> "GOVERNANCE PROPOSALS"
      [] k = "validators" -> "VALIDATORS"
      [] k = "pool" -> "STAKING POOL"
      [] k = "rewards" -> "DELEGATION REWARDS"
      [] k = "commission" -> "VALIDATOR COMMISSION"
      [] k = "block" -> "BLOCK INFORMATION"
      [] k = "node_info" -> "NODE INFORMATION"

IsNonEmptyObject(j) == j.t = "obj" /\ DOMAIN j.o # {}

\* C5: on a non-empty object format_response gives exactly what the renderer of the
\* first key present, in the order tally, balances, proposals, validators, pool,
\* rewards, commission, block, node_info, gives (its text, under its title and no
\* other, or its exception); with none of these keys present it gives the JSON dump,
\* whose members are indented by 2 spaces.
C5_FirstMatchingRenderer ==
    (fmt_out.done /\ IsNonEmptyObject(fmt_in)) =>
        LET present == {i \in 1..Len(DispatchOrder) : DispatchOrder[i] \in DOMAIN fmt_in.o}
        IN IF present = {}
           THEN /\ fmt_out.r = Ret(JsonDumps(fmt_in, 2, 0))
                /\ SubSeq(fmt_out.r.v, 1, 5) = <<"{", NL, " ", " ", "\"">>
                /\ fmt_out.r.v[6] = Head(ObjKeys(fmt_in.o))
           ELSE LET first == DispatchOrder[CHOOSE i \in present : \A k \in present : i <= k]
                IN /\ fmt_out.r = ApplyRenderer(first, current_chain, fmt_in)
                   /\ ~fmt_out.r.raised => Head(fmt_out.r.v) = RendererTitle(first)

\* a body holding both tally and balances has been rendered as a tally
C5_Witness ==
    /\ fmt_out.done
    /\ IsNonEmptyObject(fmt_in)
    /\ {"tally", "balances"} \subseteq DOMAIN fmt_in.o
    /\ ~fmt_out.r.raised
    /\ Head(fmt_out.r.v) = "PROPOSAL TALLY RESULTS"

-----------------------------------------------------------------------------
(* The object's methods called directly                                    *)

\* chain keys a caller may pass that the registry does not hold
UnknownChainKeys == {"", "EVM", "cosmos", "pos "}

\* values a caller may supply for a path parameter
ParamValues == {Strip(l) : l \in ParamLines} \ {<<>>}

\* every params mapping that gives each name of names one of ParamValues
RECURSIVE ParamMaps(_)
ParamMaps(names) ==
    IF names = <<>> THEN {<<>>}
    ELSE {<<<<Head(names), v>>>> \o rest : v \in ParamValues, rest \in ParamMaps(Tail(names))}

ApiInit ==
    /\ SessionIdle
    /\ MenuIdle
    /\ FmtIdle
    /\ \E arg \in BaseUrlArgs :
         /\ Constructed(arg)
         /\ api_call = [op |-> "__init__", arg |-> arg]

\* cli.switch_chain(chain_key)
ApiSwitchChain ==
    /\ \E chain_key \in ChainKeys \cup UnknownChainKeys :
         LET sw == switch_chain(current_chain, base_url, chain_key)
         IN /\ current_chain' = sw.current_chain
            /\ base_url' = sw.base_url
            /\ api_call' = [op |-> "switch_chain", arg |-> chain_key, ret |-> sw.ret,
                            was |-> [current_chain |-> current_chain, base_url |-> base_url]]
    /\ UNCHANGED <<sessionVars, menuVars, fmtVars>>

\* cli.make_request(path, params) for a registry endpoint, up to session.get(url)
ApiMakeRequest ==
    /\ \E i \in 1..Len(Modules) :
         \E k \in 1..Len(Modules[i].endpoints) :
            LET endpoint_info == Modules[i].endpoints[k]
            IN \E ps \in ParamMaps(endpoint_info.params) :
                  /\ requested' = RequestUrl(base_url, endpoint_info.path, ps)
                  /\ api_call' = [op |-> "make_request", path |-> endpoint_info.path,
                                  params |-> ps]
    /\ UNCHANGED <<pc, selected_module, selected_endpoint, params, result, out, last_act,
                   last_input, exit_code, chainVars, menuVars, fmtVars>>

ApiNext ==
    \/ ApiSwitchChain
    \/ ApiMakeRequest

SpecApi == ApiInit /\ [][ApiNext]_vars

\* C1: switch_chain with a key that is not a key of the chain registry returns False
\* and leaves current_chain, and the base URL derived from it, as they were.
C1_UnknownChainRejected ==
    (api_call.op = "switch_chain" /\ api_call.arg \notin {"evm", "pos"}) =>
        /\ api_call.ret = FALSE
        /\ current_chain = api_call.was.current_chain
        /\ base_url = api_call.was.base_url
        /\ base_url = Chain(current_chain).base_url

\* an unknown key has been refused while the POS chain was selected
C1_Witness ==
    /\ api_call.op = "switch_chain"
    /\ api_call.arg = "cosmos"
    /\ api_call.ret = FALSE
    /\ current_chain = "pos"

-----------------------------------------------------------------------------
(* Claims about the session                                                *)

\* C3: a user interrupt at any prompt (chain, module, endpoint menu, parameter entry,
\* post-query prompt, switch menu) prints the farewell and ends the process with exit
\* code 0; once the process has ended no step follows: no prompt, no request.
C3_InterruptEndsCleanly ==
    /\ last_input = Interrupt =>
         /\ pc \in {"exited", "returned"}
         /\ out = <<Goodbye>>
         /\ exit_code = 0
    /\ pc \in Terminal => ~ENABLED Next

\* the post-query prompt has been interrupted
C3_Witness ==
    /\ last_input = Interrupt
    /\ last_act = "post_prompt"
    /\ pc = "returned"
    /\ exit_code = 0

FailedNotice == <<"Failed to retrieve data">>

\* C4: on a transport failure, a non-2xx status or a body that is not JSON,
\* make_request prints the error and returns None without raising; run() then prints
\* the failure notice and reaches the post-query prompt; the process goes on and
\* current_chain stays as it was.
C4_RequestFailureIsNotFatal ==
    [][/\ (pc = "request" /\ last_input'.kind \in FailureKinds) =>
            /\ pc' = "render"
            /\ result' = JNull
            /\ Len(out') = 2
            /\ out'[2][1] \in {"Error making request: ", "Error parsing JSON response: "}
            /\ exit_code' = 0
            /\ current_chain' = current_chain
       /\ (pc = "render" /\ last_input.kind \in FailureKinds) =>
            /\ pc' = "post_prompt"
            /\ out'[1] = FailedNotice
            /\ exit_code' = 0
            /\ current_chain' = current_chain]_vars

\* a body that was not JSON has led to the failure notice and the post-query prompt
C4_Witness ==
    /\ last_act = "render"
    /\ last_input = [e |-> "network", kind |-> "bad_json_stdlib"]
    /\ pc = "post_prompt"
    /\ out[1] = FailedNotice

CountKeys == {"yes_count", "no_count", "abstain_count", "no_with_veto_count"}

\* the body has the key tally and one of its counts is present and int() rejects it
TallyUnparsable(j) ==
    /\ j.t = "obj"
    /\ "tally" \in DOMAIN j.o
    /\ j.o["tally"].t = "obj"
    /\ \E k \in CountKeys \cap DOMAIN j.o["tally"].o : PyInt(j.o["tally"].o[k]).raised

\* C6: a tally count that is present and cannot be parsed is a formatter error that
\* falls back to the raw JSON dump: the user is shown the dump, not an error.
C6_UnparsableTallyShowsRawJson ==
    (last_act = "render" /\ TallyUnparsable(result)) =>
        /\ pc = "post_prompt"
        /\ Len(out) >= 2
        /\ out[1] = <<"Result:">>
        /\ out[2] = JsonDumps(result, 2, 0)

\* the {param} tokens of a path template
Tokens(path) ==
    {path[i + 1] : i \in {k \in 1..(Len(path) - 2) : path[k] = "{" /\ path[k + 2] = "}"}}

RECURSIVE SubstituteTokens(_, _)
\* the template with each {name} token replaced by the value ps gives name, and every
\* other atom kept
SubstituteTokens(template, ps) ==
    IF template = <<>> THEN <<>>
    ELSE IF /\ Len(template) >= 3
            /\ template[1] = "{"
            /\ template[3] = "}"
            /\ \E i \in 1..Len(ps) : ps[i][1] = template[2]
         THEN ps[CHOOSE i \in 1..Len(ps) : ps[i][1] = template[2]][2]
              \o SubstituteTokens(SubSeq(template, 4, Len(template)), ps)
         ELSE <<Head(template)>> \o SubstituteTokens(Tail(template), ps)

\* C8: the path requested is the template with each {name} token replaced by the
\* string form of params[name] and every other character unchanged, for every
\* template of the registry and any supplied string values.
C8_PathIsTemplateSubstituted ==
    (last_act = "request" /\ pc = "render") =>
        requested = base_url \o SubstituteTokens(
                        Endpoint(selected_module, selected_endpoint).path, params)

\* C9: current_chain is the EVM key at construction, is always one of the two chain
\* keys, and changes only in a chain-switch step: the startup chain menu or the chain
\* menu of the post-query 'switch' action.
C9_ChainChangesOnlyOnSwitch ==
    /\ current_chain = "evm"
    /\ [](current_chain \in {"evm", "pos"})
    /\ [][current_chain' # current_chain =>
            /\ pc \in {"chain_menu", "switch_menu"}
            /\ last_act' \in {"chain_menu", "switch_menu"}]_vars

\* the post-query switch has moved the session from the POS chain back to the EVM chain
C9_Witness ==
    /\ last_act = "switch_menu"
    /\ last_input = Line(<<"1">>)
    /\ current_chain = "evm"
    /\ pc = "module_menu"
    /\ out[2] = <<"Base URL: ">> \o Chain("evm").base_url

\* C10: for every endpoint, the {param} tokens of its path template are exactly the
\* names of its required-params list (here: for the endpoint the session has selected).
C10_TokensAreRequiredParams ==
    selected_endpoint # None =>
        LET endpoint_info == Endpoint(selected_module, selected_endpoint)
        IN Tokens(endpoint_info.path) = Range(endpoint_info.params)

\* the recognized keys whose renderer reads the value as an object
ObjectShapedKeys == {"tally", "pool", "commission", "block", "node_info"}

\* v is a degenerate value of recognized key k: an empty list, or (for an object-shaped
\* key) an object that lacks some sub-key and whose other sub-keys hold plain values
Degenerate(k, v) ==
    \/ v = EmptyList
    \/ /\ k \in ObjectShapedKeys
       /\ v.t = "obj"
       /\ (DOMAIN TypicalValue(k).o) \ (DOMAIN v.o) # {}
       /\ \A f \in DOMAIN v.o : f \in DOMAIN TypicalValue(k).o /\ v.o[f] = TypicalValue(k).o[f]

\* C7: every shape-specific renderer returns a string and never raises on degenerate
\* input: when the one recognized key of the response holds an empty list or an object
\* missing any of its sub-keys, format_response returns a non-empty text.
C7_RenderersTotalOnDegenerateInput ==
    (/\ fmt_out.done
     /\ fmt_in.t = "obj"
     /\ \E i \in 1..Len(RecognizedKeys) :
           /\ DOMAIN fmt_in.o = {RecognizedKeys[i]}
           /\ Degenerate(RecognizedKeys[i], fmt_in.o[RecognizedKeys[i]])) =>
        /\ ~fmt_out.r.raised
        /\ fmt_out.r.v # <<>>

-----------------------------------------------------------------------------
(* Claims about the balances renderer                                      *)

\* the three digits of a group below 1000
Pad3(n) == <<IntToStr(n \div 100)[1], IntToStr((n \div 10) % 10)[1], IntToStr(n % 10)[1]>>

\* a number above 1,000,000 and below 1,000,000,000 with a comma between groups of three
Separated(n) ==
    IntToStr(n \div 1000000) \o <<",">> \o Pad3((n \div 1000) % 1000) \o <<",">> \o Pad3(n % 1000)

\* the amounts the claim speaks of: JSON strings
NumericAmount(a) == a.t = "str" /\ ~ParseInt(a.s).raised

\* the amount text of the claim as amended: the decimal form of the integer value,
\* separated above 1,000,000; a non-numeric string verbatim
AmountShown(a) ==
    IF NumericAmount(a)
    THEN LET n == ParseInt(a.s).v
         IN IF n > 1000000 THEN Separated(n) ELSE IntToStr(n)
    ELSE a.s

\* the amount text of the claim as stated: at most 1,000,000 is shown as it is
AmountShownAsIs(a) ==
    IF NumericAmount(a) /\ ParseInt(a.s).v > 1000000 THEN Separated(ParseInt(a.s).v) ELSE a.s

\* a body {"balances": [...]} whose entries all have a denom and a string amount
IsBalancesBody(j) ==
    /\ j.t = "obj"
    /\ DOMAIN j.o = {"balances"}
    /\ j.o["balances"].t = "list"
    /\ j.o["balances"].l # <<>>
    /\ \A i \in 1..Len(j.o["balances"].l) :
          LET coin == j.o["balances"].l[i]
          IN DOMAIN coin.o = {"denom", "amount"} /\ coin.o["amount"].t = "str"

BalancesHead == <<"ACCOUNT BALANCES", NL, "=*", "3", "0", NL>>

RECURSIVE BalanceEntries(_, _, _)
\* one "denom: amount" line per entry, in order; mode picks the claim's amount text
BalanceEntries(coins, i, asIs) ==
    IF i > Len(coins) THEN <<>>
    ELSE <<"coin ">> \o coins[i].o["denom"].s \o <<": ">>
         \o (IF asIs THEN AmountShownAsIs(coins[i].o["amount"]) ELSE AmountShown(coins[i].o["amount"]))
         \o <<NL>> \o BalanceEntries(coins, i + 1, asIs)

\* C11 (amended): the balances renderer lists each {denom, amount} entry; a numeric
\* amount is shown as the decimal form of its integer value, with thousands separators
\* exactly when the value exceeds 1,000,000 (2000000 -> 2,000,000; 1000000 and 500
\* without separators; whitespace and leading zeros dropped: " 007" -> 7); a
\* non-numeric amount is shown verbatim.
C11_BalancesAmounts ==
    (fmt_out.done /\ IsBalancesBody(fmt_in)) =>
        fmt_out.r = Ret(BalancesHead \o BalanceEntries(fmt_in.o["balances"].l, 1, FALSE))

\* C11 as stated: an amount whose integer value is at most 1,000,000 is rendered as-is.
C11_BalancesAmountsAsIs ==
    (fmt_out.done /\ IsBalancesBody(fmt_in)) =>
        fmt_out.r = Ret(BalancesHead \o BalanceEntries(fmt_in.o["balances"].l, 1, TRUE))

\* 2000000 has been rendered with separators and 1000000 without
C11_Witness ==
    /\ fmt_out.done
    /\ fmt_in = Obj1("balances", JList(<<
            JObj("denom" :> JStr(<<"basecro">>) @@ "amount" :> NumStr(2000000)),
            JObj("denom" :> JStr(<<"basecro">>) @@ "amount" :> NumStr(1000000))>>))
    /\ fmt_out.r = Ret(BalancesHead
            \o <<"coin ", "basecro", ": ", "2", ",", "0", "0", "0", ",", "0", "0", "0", NL>>
            \o <<"coin ", "basecro", ": ", "1", "0", "0", "0", "0", "0", "0", NL>>)

-----------------------------------------------------------------------------
(* Claims about the query loop                                             *)

\* the prompts of an iteration of the while loop
LoopPrompts == {"module_menu", "endpoint_menu", "param_entry", "post_prompt", "switch_menu"}

\* this step raises an error that is no user interrupt: end of input at one of the
\* iteration's prompts, or the formatter raising on the result
RaisesInIteration ==
    \/ pc \in LoopPrompts /\ last_input' = Eof
    \/ pc = "render" /\ Truthy(result) /\ format_response(current_chain, result).raised

\* C12: an error other than a user interrupt raised during an iteration of the query
\* loop is reported and the loop goes on at module selection: no crash, no end of the
\* session, current_chain (and base_url) unchanged.
C12_LoopSurvivesErrors ==
    [][RaisesInIteration =>
          /\ pc' = "module_menu"
          /\ Len(out') = 1
          /\ out'[1][1] = "An error occurred: "
          /\ exit_code' = 0
          /\ current_chain' = current_chain
          /\ base_url' = base_url]_vars

\* end of input at parameter entry on the POS chain has been reported and the loop is
\* back at module selection
C12_Witness ==
    /\ last_act = "param_entry"
    /\ last_input = Eof
    /\ pc = "module_menu"
    /\ out = <<<<"An error occurred: ", "EOFError">>>>
    /\ current_chain = "pos"

\* the names of a params mapping, in the order they were entered
ParamNames(ps) == [i \in 1..Len(ps) |-> ps[i][1]]

\* a value with something in it and no whitespace at either end
NonEmptyTrimmed(v) == v # <<>> /\ Head(v) \notin Whitespace /\ v[Len(v)] \notin Whitespace

\* the text {name} at position k of s
TokenAt(s, k, name) == k + 2 <= Len(s) /\ s[k] = "{" /\ s[k + 1] = name /\ s[k + 2] = "}"

\* C13: when the request of an iteration is issued, one value has been entered for each
\* declared required param of the selected endpoint, in declared order, each non-empty
\* and trimmed; so the params given to make_request have exactly the required names,
\* every {name} token of the template has a value, and a {name} text of the template
\* found in the requested URL is one the user typed as a value, never a token left
\* unsubstituted.
C13_PromptsEveryRequiredParam ==
    LET endpoint_info == Endpoint(selected_module, selected_endpoint)
    IN /\ (pc = "request" \/ last_act = "request") =>
            /\ ParamNames(params) = endpoint_info.params
            /\ \A i \in 1..Len(params) : NonEmptyTrimmed(params[i][2])
            /\ Tokens(endpoint_info.path) \subseteq Range(ParamNames(params))
       /\ (last_act = "request") =>
            \A k \in 1..Len(requested) : \A name \in Tokens(endpoint_info.path) :
               TokenAt(requested, k, name) =>
                  \E i \in 1..Len(params) : TokenAt(params[i][2], 1, name)
       /\ (pc = "param_entry") =>
            /\ Len(params) < Len(endpoint_info.params)
            /\ ParamNames(params) = SubSeq(endpoint_info.params, 1, Len(params))

\* the delegation request has been issued with both values entered, the first trimmed
C13_Witness ==
    /\ last_act = "request"
    /\ selected_module = "staking"
    /\ selected_endpoint = "delegation"
    /\ params = <<<<"delegator_addr", <<"7">>>>, <<"validator_addr", <<"cro1abc">>>>>>
    /\ requested = base_url \o <<"cosmos/staking/v1beta1/delegators/", "7", "/validators/", "cro1abc">>

-----------------------------------------------------------------------------
(* Claims about base_url                                                   *)

\* the scheme and host of a URL
Origin(url) == SubSeq(url, 1, 2)

\* C14: after construction, whatever base_url argument was given, base_url is the base
\* URL registered for current_chain; a make_request that follows a successful
\* switch_chain goes to the origin of the chain just selected, and every request goes
\* to the origin of current_chain and to no other chain's.
C14_BaseUrlFollowsChain ==
    /\ [](/\ current_chain \in ChainKeys
          /\ base_url = Chain(current_chain).base_url
          /\ api_call.op = "make_request" =>
                /\ Origin(requested) = Origin(Chain(current_chain).base_url)
                /\ \A other \in ChainKeys \ {current_chain} :
                      Origin(requested) # Origin(Chain(other).base_url))
    /\ [][(api_call.op = "switch_chain" /\ api_call.ret /\ api_call'.op = "make_request") =>
             Origin(requested') = Origin(Chain(api_call.arg).base_url)]_vars

\* a request has gone to the POS origin after a switch to the POS chain
C14_Witness ==
    /\ api_call.op = "make_request"
    /\ current_chain = "pos"
    /\ Origin(requested) = <<"https://", "rest.mainnet.crypto.org">>
    /\ Origin(requested) # Origin(Chain("evm").base_url)

-----------------------------------------------------------------------------
(* Claims about what run() shows for a request                             *)

\* C15: after the render step, the formatter's output is shown whenever the request
\* succeeded (2xx and a JSON body, whatever it decodes to, {} and [] included), and
\* the failure notice is not printed for it; stated for the bodies the claim names,
\* objects and lists.
C15_ResultShownForEverySuccess ==
    (last_act = "render" /\ last_input = [e |-> "network", kind |-> "ok"] /\ result.t \in {"obj", "list"}) =>
        /\ out[1] # FailedNotice
        /\ ~format_response(current_chain, result).raised =>
              /\ Len(out) >= 2
              /\ out[1] = <<"Result:">>
              /\ out[2] = format_response(current_chain, result).v

====
